---- MODULE Spec2Model ----
(***************************************************************************)
(* stockprep: the StockData container (src/stock_data.py) and the fetcher  *)
(* contract it depends on.  A price table is a pandas DataFrame: a set of  *)
(* column labels, a number of rows (dates, ascending) and one cell per     *)
(* column and row.  A cell is a float; floats are modelled as exact        *)
(* extended rationals <<num, den>>: den > 0 is a finite number in lowest   *)
(* terms, <<0, 0>> is NaN (pandas' missing value), <<1, 0>> and <<-1, 0>>  *)
(* are +inf and -inf.  Rounding of float64 is not modelled.                *)
(***************************************************************************)
EXTENDS Integers, Sequences, FiniteSets, TLC

VARIABLES
    raw,      \* self.raw
    prices,   \* self.prices
    op,       \* the method called last
    ret,      \* what that call returned or raised
    fetched,  \* what self.fetch did in that call: Raise, the value returned, or
              \* NoCall when the call made no fetch
    market,   \* the table a fixed data source serves (SpecData only)
    good,     \* raw and prices as the last successful load left them
    seen,     \* per derived method, its last result since the last load call
    replaced, \* the last call was a successful load over the different tables
              \* of an earlier successful load
    again     \* the last call was a derived method already called since the
              \* last load call

vars == <<raw, prices, op, ret, fetched, market, good, seen, replaced, again>>

(* ---------------------------- bounds ----------------------------------- *)
\* rows of the tables drawn as inputs of the pure computations (SpecData)
MaxRows == 3
\* rows of the tables the fetcher returns in the lifecycle specification (Spec)
MaxFeedRows == 2

Symbols == {"A", "B"}

(* ---------------------------- floats ----------------------------------- *)
NaN == <<0, 0>>
PosInf == <<1, 0>>
NegInf == <<-1, 0>>
Num(p) == <<p, 1>>
One == Num(1)
Zero == Num(0)
Two == Num(2)

IsNaN(x) == x = NaN
IsInf(x) == x[2] = 0 /\ x[1] # 0

Abs(i) == IF i < 0 THEN -i ELSE i

RECURSIVE GCD(_, _)
GCD(a, b) == IF b = 0 THEN a ELSE GCD(b, a % b)

\* the finite number n/d (d # 0) in lowest terms with a positive denominator
Norm(n, d) ==
    LET g == GCD(Abs(n), Abs(d))
        s == IF d < 0 THEN -1 ELSE 1
    IN  <<(s * n) \div g, (s * d) \div g>>

Neg(x) == <<-x[1], x[2]>>

\* float division a / b (numpy: no exception, x/0 is +-inf, 0/0 is nan)
Div(a, b) ==
    IF IsNaN(a) \/ IsNaN(b) THEN NaN
    ELSE IF IsInf(b) THEN (IF IsInf(a) THEN NaN ELSE Zero)
    ELSE IF IsInf(a) THEN (IF b[1] < 0 THEN Neg(a) ELSE a)
    ELSE IF b[1] = 0 THEN (IF a[1] = 0 THEN NaN
                           ELSE IF a[1] > 0 THEN PosInf ELSE NegInf)
    ELSE Norm(a[1] * b[2], a[2] * b[1])

\* float subtraction a - b
Sub(a, b) ==
    IF IsNaN(a) \/ IsNaN(b) THEN NaN
    ELSE IF IsInf(a) THEN (IF b = a THEN NaN ELSE a)
    ELSE IF IsInf(b) THEN Neg(b)
    ELSE Norm(a[1] * b[2] - b[1] * a[2], a[2] * b[2])

(* ---------------------------- values ----------------------------------- *)
None == [kind |-> "None"]
\* an object that is not a DataFrame (no ffill attribute), e.g. a dict
Dict == [kind |-> "dict"]
Self == [kind |-> "self"]
Raise == [kind |-> "raise"]
FetchError == [kind |-> "FetchError"]
AttributeError == [kind |-> "AttributeError"]
ValueError == [kind |-> "ValueError"]
IndexError == [kind |-> "IndexError"]
NoCall == [kind |-> "nocall"]

DataFrame(cols, n, v) == [kind |-> "table", cols |-> cols, n |-> n, v |-> v]
IsTable(x) == x.kind = "table"
\* pd.DataFrame(): zero rows, zero columns
EmptyFrame == DataFrame({}, 0, [c \in {} |-> <<>>])

\* the cells of the tables drawn as inputs of the pure computations
Cells == {NaN, Zero, One, Two}
\* the cells of the tables a fetcher of the lifecycle specification returns
FeedCells == {NaN, One}

(* ---------------------------- pandas ----------------------------------- *)
\* Series.ffill at position i: the last valid value at or before i
RECURSIVE ffillAt(_, _)
ffillAt(s, i) ==
    IF i = 0 THEN NaN
    ELSE IF ~IsNaN(s[i]) THEN s[i]
    ELSE ffillAt(s, i - 1)

\* Series.bfill at position i of a series of length n
RECURSIVE bfillAt(_, _, _)
bfillAt(s, i, n) ==
    IF i > n THEN NaN
    ELSE IF ~IsNaN(s[i]) THEN s[i]
    ELSE bfillAt(s, i + 1, n)

ffill(df) == DataFrame(df.cols, df.n,
                 [c \in df.cols |-> [i \in 1..df.n |-> ffillAt(df.v[c], i)]])

bfill(df) == DataFrame(df.cols, df.n,
                 [c \in df.cols |-> [i \in 1..df.n |-> bfillAt(df.v[c], i, df.n)]])

_clean_bfill_first(df) == ffill(bfill(df))

\* StockData._clean
_clean(df) == bfill(ffill(df))

\* df.iloc[0]: the first row as a Series indexed by the column labels
iloc0(df) == [c \in df.cols |-> df.v[c][1]]

\* df.iloc[1:]: every row but the first (an empty slice of an empty frame)
iloc1(df) ==
    LET m == IF df.n = 0 THEN 0 ELSE df.n - 1
    IN  DataFrame(df.cols, m, [c \in df.cols |-> [i \in 1..m |-> df.v[c][i + 1]]])

\* df / row: each cell divided by the row's value for the cell's column
DivRow(df, row) ==
    DataFrame(df.cols, df.n,
        [c \in df.cols |-> [i \in 1..df.n |-> Div(df.v[c][i], row[c])]])

\* df - 1
SubOne(df) ==
    DataFrame(df.cols, df.n,
        [c \in df.cols |-> [i \in 1..df.n |-> Sub(df.v[c][i], One)]])

pct_change_no_minus(df) ==
    DataFrame(df.cols, df.n,
        [c \in df.cols |-> [i \in 1..df.n |->
            IF i = 1 THEN NaN ELSE Div(df.v[c][i], df.v[c][i - 1])]])

\* df.pct_change(): df / df.shift(1) - 1, the first row being NaN
pct_change(df) ==
    DataFrame(df.cols, df.n,
        [c \in df.cols |-> [i \in 1..df.n |->
            IF i = 1 THEN NaN ELSE Sub(Div(df.v[c][i], df.v[c][i - 1]), One)]])

(* ---------------------------- StockData -------------------------------- *)
Derived == {"normalize", "daily_returns", "cumulative_returns"}

NoneSeen == [m \in Derived |-> NoCall]

history == <<good, seen, replaced, again>>

\* StockData.__init__
Init ==
    /\ raw = None
    /\ prices = None
    /\ op = "__init__"
    /\ ret = None
    /\ fetched = NoCall
    /\ market = None
    /\ good = None
    /\ seen = NoneSeen
    /\ replaced = FALSE
    /\ again = FALSE

\* the same container over a data source that serves one table
InitData ==
    /\ raw = None
    /\ prices = None
    /\ op = "__init__"
    /\ ret = None
    /\ fetched = NoCall
    /\ \E cols \in SUBSET Symbols, n \in 0..MaxRows :
         \E v \in [cols -> [1..n -> Cells]] : market = DataFrame(cols, n, v)
    /\ good = None
    /\ seen = NoneSeen
    /\ replaced = FALSE
    /\ again = FALSE

\* load that clears the tables when the fetcher raises
load_resets(out) ==
    /\ op' = "load"
    /\ fetched' = out
    /\ IF out = Raise
       THEN /\ ret' = FetchError
            /\ raw' = None
            /\ prices' = None
       ELSE /\ raw' = out
            /\ IF IsTable(out)
               THEN /\ prices' = _clean(out)
                    /\ ret' = Self
               ELSE /\ ret' = AttributeError
                    /\ UNCHANGED prices
    /\ UNCHANGED market

\* load that cleans the table it held before the fetch, when it held one
load_stale(out) ==
    /\ op' = "load"
    /\ fetched' = out
    /\ IF out = Raise
       THEN /\ ret' = FetchError
            /\ UNCHANGED <<raw, prices>>
       ELSE /\ raw' = out
            /\ IF IsTable(out)
               THEN /\ prices' = IF IsTable(raw) THEN _clean(raw) ELSE _clean(out)
                    /\ ret' = Self
               ELSE /\ ret' = AttributeError
                    /\ UNCHANGED prices
    /\ UNCHANGED market

\* load that cleans only when no cleaned table is held yet
load_keeps_prices(out) ==
    /\ op' = "load"
    /\ fetched' = out
    /\ IF out = Raise
       THEN /\ ret' = FetchError
            /\ UNCHANGED <<raw, prices>>
       ELSE /\ raw' = out
            /\ IF IsTable(out)
               THEN /\ prices' = IF prices = None THEN _clean(out) ELSE prices
                    /\ ret' = Self
               ELSE /\ ret' = AttributeError
                    /\ UNCHANGED prices
    /\ UNCHANGED market

\* StockData.load, the fetcher doing `out`: raising, or returning `out`
load(out) ==
    /\ op' = "load"
    /\ fetched' = out
    /\ IF out = Raise
       THEN /\ ret' = FetchError
            /\ UNCHANGED <<raw, prices>>
       ELSE /\ raw' = out
            /\ IF IsTable(out)
               THEN /\ prices' = _clean(out)
                    /\ ret' = Self
               ELSE /\ ret' = AttributeError
                    /\ UNCHANGED prices
    /\ UNCHANGED market

\* normalize dividing by the last row instead of the first
normalize_result_last(p) ==
    IF p = None THEN ValueError
    ELSE IF p.n = 0 THEN IndexError
    ELSE DivRow(p, [c \in p.cols |-> p.v[c][p.n]])

\* what normalize() returns or raises when self.prices is p; iloc[0] of a
\* frame without rows raises IndexError (single positional indexer out of bounds)
normalize_result(p) ==
    IF p = None THEN ValueError
    ELSE IF p.n = 0 THEN IndexError
    ELSE DivRow(p, iloc0(p))

\* what daily_returns() returns or raises when self.prices is p; pct_change
\* and the slice iloc[1:] accept a frame without rows
daily_returns_result(p) ==
    IF p = None THEN ValueError
    ELSE iloc1(pct_change(p))

\* what cumulative_returns() returns or raises when self.prices is p; iloc[0]
\* as in normalize
cumulative_returns_result(p) ==
    IF p = None THEN ValueError
    ELSE IF p.n = 0 THEN IndexError
    ELSE SubOne(DivRow(p, iloc0(p)))

\* StockData.normalize
normalize ==
    /\ op' = "normalize"
    /\ ret' = normalize_result(prices)
    /\ fetched' = NoCall
    /\ UNCHANGED <<raw, prices, market>>

\* daily_returns testing self.raw, not self.prices, for None
daily_returns_checks_raw ==
    /\ op' = "daily_returns"
    /\ ret' = IF raw = None THEN ValueError
              ELSE IF prices = None THEN AttributeError
              ELSE iloc1(pct_change(prices))
    /\ fetched' = NoCall
    /\ UNCHANGED <<raw, prices, market>>

\* daily_returns overwriting self.prices with its result
daily_returns_inplace ==
    /\ op' = "daily_returns"
    /\ ret' = daily_returns_result(prices)
    /\ prices' = IF prices = None THEN prices ELSE ret'
    /\ fetched' = NoCall
    /\ UNCHANGED <<raw, market>>

\* StockData.daily_returns
daily_returns ==
    /\ op' = "daily_returns"
    /\ ret' = daily_returns_result(prices)
    /\ fetched' = NoCall
    /\ UNCHANGED <<raw, prices, market>>

\* StockData.cumulative_returns
cumulative_returns ==
    /\ op' = "cumulative_returns"
    /\ ret' = cumulative_returns_result(prices)
    /\ fetched' = NoCall
    /\ UNCHANGED <<raw, prices, market>>

(* ---------------------------- the caller's record ---------------------- *)
\* what a caller notes of a load call whose fetcher did `out`
NoteLoad(out) ==
    /\ seen' = NoneSeen
    /\ again' = FALSE
    /\ IF ret' = Self
       THEN /\ good' = [raw |-> raw', prices |-> prices']
            /\ replaced' = (good # None /\ good.raw # out)
       ELSE /\ replaced' = FALSE
            /\ UNCHANGED good

\* what a caller notes of a call of the derived method m
NoteCall(m) ==
    /\ seen' = [seen EXCEPT ![m] = ret']
    /\ again' = (seen[m] # NoCall)
    /\ replaced' = FALSE
    /\ UNCHANGED good

(* ---------------------------- specifications --------------------------- *)
\* any caller, any fetcher: it returns a table, or raises, or returns None or
\* another object that is no table
Next ==
    \/ \E cols \in SUBSET Symbols, n \in 0..MaxFeedRows :
         \E v \in [cols -> [1..n -> FeedCells]] :
            load(DataFrame(cols, n, v)) /\ NoteLoad(DataFrame(cols, n, v))
    \/ \E out \in {Raise, None, Dict} : load(out) /\ NoteLoad(out)
    \/ normalize /\ NoteCall("normalize")
    \/ cumulative_returns /\ NoteCall("cumulative_returns")
    \/ daily_returns /\ NoteCall("daily_returns")

Spec == Init /\ [][Next]_vars

\* a fetcher that serves the table `market`, no record kept
NextData ==
    \/ load(market) /\ UNCHANGED history
    \/ normalize /\ UNCHANGED history
    \/ cumulative_returns /\ UNCHANGED history
    \/ daily_returns /\ UNCHANGED history

SpecData == InitData /\ [][NextData]_vars

(* ---------------------------- properties ------------------------------- *)
Max(S) == CHOOSE x \in S : \A y \in S : y <= x
Min(S) == CHOOSE x \in S : \A y \in S : x <= y

\* the value the data model gives cell i of a cleaned column: the nearest
\* valid value at or before i, else the nearest valid value after i, else NaN
NearestFill(s, i, n) ==
    LET before == {j \in 1..i : ~IsNaN(s[j])}
        after == {j \in i..n : ~IsNaN(s[j])}
    IN  IF before # {} THEN s[Max(before)]
        ELSE IF after # {} THEN s[Min(after)]
        ELSE NaN

GoodRaw == IF good = None THEN None ELSE good.raw
GoodPrices == IF good = None THEN None ELSE good.prices

\* C1: as long as no load call has completed successfully (fresh container,
\* fetcher raised, or cleaning failed), every derived method raises the
\* "no data loaded" ValueError and returns no table.
C1_NoDataLoaded ==
    (good = None /\ op \in Derived) => ret = ValueError

\* a derived method called after a load that did not succeed
C1_Witness ==
    /\ good = None
    /\ raw = Dict
    /\ op = "daily_returns"
    /\ ret = ValueError

\* C2 as stated: a load whose fetcher raises propagates the error and leaves
\* raw and prices as before the call, which are both absent if no load had
\* succeeded and otherwise the tables of the last successful load.
C2_AsClaimed ==
    [][(op' = "load" /\ fetched' = Raise) =>
          /\ ret' = FetchError
          /\ raw' = raw /\ prices' = prices
          /\ raw' = GoodRaw /\ prices' = GoodPrices]_vars

\* C2 amended: a load whose fetcher raises propagates the error and leaves raw
\* and prices as before the call; prices is absent if no load had succeeded
\* and otherwise the cleaned table of the last successful load; raw is that
\* load's table (absent if there was none) unless a later load failed in the
\* cleaning step, and then raw is the non-table value that load stored.
C2_FetchRaiseKeepsState ==
    [][(op' = "load" /\ fetched' = Raise) =>
          /\ ret' = FetchError
          /\ raw' = raw /\ prices' = prices
          /\ prices' = GoodPrices
          /\ (raw' = GoodRaw \/ ~IsTable(raw'))]_vars

\* the fetcher raised in a load called on a container holding a loaded table
C2_Witness ==
    /\ op = "load"
    /\ fetched = Raise
    /\ ret = FetchError
    /\ IsTable(raw) /\ raw.n >= 1
    /\ prices = _clean(raw)

\* C8: after a successful load raw is the table the fetcher returned in that
\* call and prices is the cleaning of that table, whatever was loaded before.
C8_LoadReplaces ==
    (op = "load" /\ ret = Self) =>
        /\ IsTable(fetched)
        /\ raw = fetched
        /\ prices = bfill(ffill(fetched))

\* a successful load over the different tables of an earlier successful load
C8_Witness ==
    /\ op = "load"
    /\ ret = Self
    /\ replaced
    /\ raw = fetched
    /\ raw.n >= 1

\* C9: a derived method leaves raw and prices unchanged, and returns what its
\* previous call returned when no load was called in between, whatever other
\* derived methods were.
C9_Idempotent ==
    [][op' \in Derived =>
          /\ raw' = raw
          /\ prices' = prices
          /\ (seen[op'] # NoCall => ret' = seen[op'])]_vars

\* normalize called again after daily_returns, on a loaded table with rows
C9_Witness ==
    /\ op = "normalize"
    /\ again
    /\ seen["daily_returns"] # NoCall
    /\ IsTable(ret) /\ ret.n >= 1 /\ ret.cols # {}

\* C10 as stated: raw is absent exactly when prices is absent, and when both
\* are present prices is the cleaning of raw.
C10_AsClaimed ==
    /\ (raw = None) <=> (prices = None)
    /\ (raw # None /\ prices # None) => (IsTable(raw) /\ prices = _clean(raw))

\* C10 amended: whenever raw holds a table, prices is the cleaning of raw;
\* prices is absent exactly when no load has succeeded and is otherwise the
\* cleaned table of the last successful load; a load that fails in the
\* cleaning step stores the non-table value the fetcher returned in raw and
\* leaves prices as it was.
C10_RawTableIsCleaned ==
    /\ IsTable(raw) => prices = _clean(raw)
    /\ (prices = None) <=> (good = None)
    /\ prices = GoodPrices
    /\ (op = "load" /\ ret = AttributeError) => (raw = fetched /\ ~IsTable(raw))

\* a load failed in cleaning on a container holding a cleaned table
C10_Witness ==
    /\ op = "load"
    /\ ret = AttributeError
    /\ raw = None
    /\ IsTable(prices) /\ prices.n >= 1

\* C3 as stated: when the fetcher returns the empty table, load succeeds and
\* stores an empty cleaned table, and every derived method then returns an
\* empty table without raising.
C3_AsClaimed ==
    raw = EmptyFrame =>
        /\ prices = EmptyFrame
        /\ op = "load" => ret = Self
        /\ op \in Derived => (IsTable(ret) /\ ret.n = 0 /\ ret.cols = {})

\* C4: every cell of the cleaned table stored by load is the nearest valid raw
\* value of its column at or before its date, else the nearest valid raw value
\* after it, else missing; so a cleaned cell is missing only if its whole raw
\* column is.
C4_CleanIsNearestFill ==
    IsTable(raw) =>
        /\ IsTable(prices)
        /\ prices.cols = raw.cols
        /\ prices.n = raw.n
        /\ \A c \in raw.cols : \A i \in 1..raw.n :
              /\ prices.v[c][i] = NearestFill(raw.v[c], i, raw.n)
              /\ IsNaN(prices.v[c][i]) => \A j \in 1..raw.n : IsNaN(raw.v[c][j])

\* a gap in the middle of column A and a leading gap in column B were filled
C4_Witness ==
    /\ op = "load"
    /\ IsTable(raw)
    /\ raw.cols = {"A", "B"}
    /\ raw.n = 3
    /\ raw.v["A"] = <<One, NaN, Two>>
    /\ prices.v["A"] = <<One, One, Two>>
    /\ raw.v["B"] = <<NaN, Two, NaN>>
    /\ prices.v["B"] = <<Two, Two, Two>>

C6_AsClaimed ==
    IsTable(prices) =>
        /\ op = "cumulative_returns" => (IsTable(ret) /\ ret.n = prices.n)
        /\ op = "daily_returns" => (IsTable(ret) /\ ret.n = prices.n - 1)

\* the row counts of C6 on every cleaned table that has a row
C6_RowCounts ==
    (IsTable(prices) /\ prices.n >= 1) =>
        /\ op = "cumulative_returns" => (IsTable(ret) /\ ret.n = prices.n)
        /\ op = "daily_returns" => (IsTable(ret) /\ ret.n = prices.n - 1)

\* C7: row i of daily_returns() is (price[i+1] - price[i]) / price[i] of the
\* cleaned table, for every column and every i from the first to the
\* second-to-last cleaned row.
C7_DailyReturns ==
    (op = "daily_returns" /\ IsTable(prices)) =>
        /\ IsTable(ret)
        /\ ret.cols = prices.cols
        /\ \A c \in prices.cols : \A i \in 1..(prices.n - 1) :
              /\ i <= ret.n
              /\ ret.v[c][i] =
                    Div(Sub(prices.v[c][i + 1], prices.v[c][i]), prices.v[c][i])

\* the scenario of the specification, prices in units of 10 (A) and 5 (B):
\* raw A = [10, missing, 20], B = [5, 5, 5]
C7_Witness ==
    /\ op = "daily_returns"
    /\ IsTable(prices)
    /\ raw.v = [c \in {"A", "B"} |-> IF c = "A" THEN <<One, NaN, Two>>
                                      ELSE <<One, One, One>>]
    /\ prices.v = [c \in {"A", "B"} |-> IF c = "A" THEN <<One, One, Two>>
                                         ELSE <<One, One, One>>]
    /\ ret.n = 2
    /\ ret.v = [c \in {"A", "B"} |-> IF c = "A" THEN <<Zero, One>>
                                      ELSE <<Zero, Zero>>]

====
